---- MODULE Spec2Model ----
(***************************************************************************)
(* A model of dirutility's directory traversal: the sequential Crawler     *)
(* behind DirPaths.walk, the legacy DirPaths.walk, DirTree.get and the     *)
(* parallel traversal, over small file systems.                            *)
(*                                                                         *)
(* A path string is a sequence of one-character strings, so that slicing,  *)
(* joining, splitting and substring tests are computed as Python computes  *)
(* them. A file system is a set of entries [segs, kind]: segs is the       *)
(* sequence of names from the working directory down to the entry.         *)
(***************************************************************************)
EXTENDS Integers, Sequences, FiniteSets, TLC

\* ------------------------------------------------------------------ strings

\* os.sep on the POSIX build.
SEP == "/"

\* The hidden-file marker.
DOT == "."

\* s[n:]
Drop(s, n) == IF n >= Len(s) THEN <<>> ELSE SubSeq(s, n + 1, Len(s))

\* s[:n]
Take(s, n) == IF n >= Len(s) THEN s ELSE SubSeq(s, 1, n)

\* s.rfind(c): the 0-based index of the last c in s, or -1.
RFind(s, c) ==
    LET hits == {i \in 1..Len(s) : s[i] = c}
    IN  IF hits = {} THEN -1 ELSE (CHOOSE i \in hits : \A j \in hits : j <= i) - 1

\* s.find(c): the 0-based index of the first c in s, or -1.
Find(s, c) ==
    LET hits == {i \in 1..Len(s) : s[i] = c}
    IN  IF hits = {} THEN -1 ELSE (CHOOSE i \in hits : \A j \in hits : i <= j) - 1

\* term in s (substring test); the empty term is in every string.
Contains(term, s) ==
    \E i \in 0..(Len(s) - Len(term)) : SubSeq(s, i + 1, i + Len(term)) = term

\* s.startswith(c) for a one-character c.
StartsWith(s, c) == Len(s) > 0 /\ s[1] = c

\* s.rstrip(c)
RECURSIVE RStrip(_, _)
RStrip(s, c) ==
    IF Len(s) > 0 /\ s[Len(s)] = c THEN RStrip(Take(s, Len(s) - 1), c) ELSE s

\* s.split(os.sep): '' splits to [''], 'a/b' to ['a', 'b'], 'a/' to ['a', ''].
RECURSIVE Split(_)
Split(s) ==
    LET i == Find(s, SEP)
    IN  IF i = -1 THEN <<s>> ELSE <<Take(s, i)>> \o Split(Drop(s, i + 1))

\* os.path.basename(s): what follows the last separator.
Basename(s) == Drop(s, RFind(s, SEP) + 1)

\* os.path.join(a, b) for a relative b.
Join(a, b) ==
    IF a = <<>> THEN b
    ELSE IF a[Len(a)] = SEP THEN a \o b
    ELSE a \o <<SEP>> \o b

\* SEP.join(parts)
RECURSIVE JoinAll(_)
JoinAll(parts) ==
    IF parts = <<>> THEN <<>>
    ELSE IF Len(parts) = 1 THEN parts[1]
    ELSE parts[1] \o <<SEP>> \o JoinAll(Tail(parts))

\* The elements of a list.
Range(s) == {s[i] : i \in 1..Len(s)}

\* A list has no element twice.
NoDup(s) == \A i, j \in 1..Len(s) : i # j => s[i] # s[j]

\* One fixed enumeration of a finite set (a directory listing's order).
RECURSIVE SetToSeq(_)
SetToSeq(S) ==
    IF S = {} THEN <<>>
    ELSE LET x == CHOOSE y \in S : TRUE IN <<x>> \o SetToSeq(S \ {x})

\* The concatenation of a list of lists.
RECURSIVE Flatten(_)
Flatten(ss) == IF ss = <<>> THEN <<>> ELSE ss[1] \o Flatten(Tail(ss))

\* -------------------------------------------------------------- file system

\* The names of a path string as the kernel resolves it: empty segments
\* (doubled or trailing separators) name nothing.
Segs(path) == SelectSeq(Split(path), LAMBDA n : n # <<>>)

Dir(segs) == [segs |-> segs, kind |-> "d"]
File(segs) == [segs |-> segs, kind |-> "f"]

\* Every entry's parent directory is in the file system.
Closed(f) ==
    \A e \in f : Len(e.segs) > 1 => Dir(Take(e.segs, Len(e.segs) - 1)) \in f

IsDir(f, path) == Dir(Segs(path)) \in f

\* The names of the sub-directories / files directly in the directory segs.
ChildNames(f, segs, kind) ==
    {e.segs[Len(e.segs)] : e \in {x \in f : /\ x.kind = kind
                                           /\ Len(x.segs) = Len(segs) + 1
                                           /\ Take(x.segs, Len(segs)) = segs}}

\* os.walk below one directory: the (dirpath, dirnames, filenames) triples,
\* the directory itself first when topdown and last otherwise.
RECURSIVE WalkFrom(_, _, _, _)
WalkFrom(f, dirpath, segs, topdown) ==
    LET dirnames == SetToSeq(ChildNames(f, segs, "d"))
        filenames == SetToSeq(ChildNames(f, segs, "f"))
        here == << <<dirpath, dirnames, filenames>> >>
        below == Flatten([i \in 1..Len(dirnames) |->
                     WalkFrom(f, Join(dirpath, dirnames[i]),
                              Append(segs, dirnames[i]), topdown)])
    IN  IF topdown THEN here \o below ELSE below \o here

\* os.walk(top, topdown): a top that is no directory yields nothing (the
\* scandir error is swallowed, onerror being None).
OsWalk(f, top, topdown) ==
    IF IsDir(f, top) THEN WalkFrom(f, top, Segs(top), topdown) ELSE <<>>

\* The files below the directory rootSegs, each as its path relative to it.
FilesBelow(f, rootSegs) ==
    {JoinAll(Drop(e.segs, Len(rootSegs))) :
        e \in {x \in f : /\ x.kind = "f"
                         /\ Len(x.segs) > Len(rootSegs)
                         /\ Take(x.segs, Len(rootSegs)) = rootSegs}}

\* The string a traversal of root emits for the relative path rel.
Emitted(full_paths, root, rel) == IF full_paths THEN Join(root, rel) ELSE rel

\* ------------------------------------------------------------------ inputs

\* Names and path strings of the examples, spelled as character sequences.
N_r == <<"r">>
N_t == <<"t">>
N_a == <<"a">>
N_b == <<"b">>
N_c == <<"c">>
N_p == <<"p">>
N_x == <<"x">>
N_z == <<"z">>
N_nope == <<"n", "o">>
N_app_log == <<"a", "p", "p", ".", "l", "o", "g">>
N_tmp_log == <<"t", "m", "p", ".", "l", "o", "g">>
N_notes_txt == <<"n", "o", "t", "e", "s", ".", "t", "x", "t">>
N_hid == <<".", "h">>
N_file_txt == <<"f", "i", "l", "e", ".", "t", "x", "t">>
N_top_txt == <<"t", "o", "p", ".", "t", "x", "t">>
N_y_txt == <<"y", ".", "t", "x", "t">>
N_w_txt == <<"w", ".", "t", "x", "t">>
T_log == <<".", "l", "o", "g">>
T_tmp == <<"t", "m", "p">>
T_app == <<"a", "p", "p">>

\* r/ holds app.log, tmp.log, notes.txt and the hidden .h;
\* t/ holds top.txt, a/b/file.txt and the empty a/c/.
DiskLogs ==
    {Dir(<<N_r>>), File(<<N_r, N_app_log>>), File(<<N_r, N_tmp_log>>),
     File(<<N_r, N_notes_txt>>), File(<<N_r, N_hid>>)}

DiskNested ==
    {Dir(<<N_t>>), File(<<N_t, N_top_txt>>), Dir(<<N_t, N_a>>),
     Dir(<<N_t, N_a, N_b>>), File(<<N_t, N_a, N_b, N_file_txt>>),
     Dir(<<N_t, N_a, N_c>>)}

CrawlFileSystems == {DiskLogs \cup DiskNested, DiskLogs, DiskNested \ {File(<<N_t, N_top_txt>>)}}

\* from math import inf: above every level of every path.
inf == 1000

\* The largest finite depth bound a request names.
MaxLevel == 2

\* How often walk() is called on one DirPaths object.
MaxCalls == 2

\* The directory argument: one path string, or a list of path strings.
StrArg(s) == [isList |-> FALSE, items |-> <<s>>]
ListArg(ss) == [isList |-> TRUE, items |-> ss]

DirectoryArgs ==
    {StrArg(N_r), StrArg(N_t), StrArg(N_nope),
     ListArg(<<N_r, N_t>>), ListArg(<<N_t, N_t>>)}

IncludeArgs == {<<>>, <<T_log>>, <<T_log, T_app>>}
ExcludeArgs == {<<>>, <<T_tmp>>}

\* The requests: depth bounds in order, and non-empty-folders mode only with
\* a finite max_level.
Requests ==
    {q \in [directory : DirectoryArgs, full_paths : BOOLEAN, topdown : BOOLEAN,
            to_include : IncludeArgs, to_exclude : ExcludeArgs,
            min_level : 0..1, max_level : (1..MaxLevel) \cup {inf},
            non_empty_folders : BOOLEAN] :
        /\ q.min_level <= q.max_level
        /\ q.non_empty_folders => q.max_level # inf}

\* ------------------------------------------------------------- PathFilters

\* DirPaths.filters when no PathFilters is built: the Python value False.
False == [supplied |-> FALSE]

\* PathFilters(to_include, to_exclude, min_level, max_level, filters, non_empty_folders)
PathFilters(to_include, to_exclude, min_level, max_level, non_empty_folders) ==
    [supplied |-> TRUE, to_include |-> to_include, to_exclude |-> to_exclude,
     min_level |-> min_level, max_level |-> max_level,
     non_empty_folders |-> non_empty_folders]

\* PathFilters.get_level: the number of separator-delimited segments, the
\* root itself ('') being level 0.
get_level(path) == IF path = <<>> THEN 0 ELSE Len(Split(path))

\* PathFilters.validate: depth bounds, then exclude terms, then include terms,
\* the terms tested against the final component.
validate(F, path) ==
    LET level == get_level(path)
        name == Basename(path)
    IN  /\ ~(level < F.min_level \/ level > F.max_level)
        /\ ~(F.to_exclude # <<>> /\ \E i \in 1..Len(F.to_exclude) : Contains(F.to_exclude[i], name))
        /\ ~(F.to_include # <<>> /\ ~\E i \in 1..Len(F.to_include) : Contains(F.to_include[i], name))

\* ---------------------------------------------------------------- DirPaths

\* str(x) of a str is x; of a list, its repr: ['r', 't'].
RECURSIVE PyReprItems(_)
PyReprItems(items) ==
    IF items = <<>> THEN <<>>
    ELSE <<"'">> \o items[1] \o <<"'">>
         \o (IF Len(items) > 1 THEN <<",", " ">> ELSE <<>>)
         \o PyReprItems(Tail(items))

PyStr(arg) ==
    IF arg.isList THEN <<"[">> \o PyReprItems(arg.items) \o <<"]">> ELSE arg.items[1]

\* str() raises TypeError for neither a str nor a list.
StrRaisesTypeError(arg) == FALSE

\* DirPaths.__init__: self.directory
InitDirectory(arg) ==
    IF StrRaisesTypeError(arg) THEN arg.items ELSE <<PyStr(arg)>>

\* DirPaths.__init__: self.filters
InitFilters(q) ==
    IF q.to_include # <<>> \/ q.to_exclude # <<>> \/ q.min_level # 0 \/ q.max_level # inf
    THEN PathFilters(q.to_include, q.to_exclude, q.min_level, q.max_level,
                     q.non_empty_folders)
    ELSE False

\* ----------------------------------------------------------------- Crawler

\* Crawler.add_path: _add_filepath_absolute when full_paths, else
\* _add_filepath_relative.
add_path(filepaths, full_paths, directory, fullname) ==
    IF full_paths THEN Append(filepaths, Join(directory, fullname))
    ELSE Append(filepaths, fullname)

\* The relative path of a walked directory: root[len(str(directory)) + 1:]
RelRoot(directory, dirpath) == Drop(dirpath, Len(directory) + 1)

\* The files loop of Crawler.filter.
RECURSIVE FilterFiles(_, _, _, _, _, _)
FilterFiles(filepaths, F, full_paths, directory, root, files) ==
    IF files = <<>> THEN filepaths
    ELSE LET fullname == Join(root, files[1])
             added == IF validate(F, fullname)
                      THEN add_path(filepaths, full_paths, directory, fullname)
                      ELSE filepaths
         IN  FilterFiles(added, F, full_paths, directory, root, Tail(files))

\* One iteration of the os.walk loop of Crawler.filter.
FilterIter(filepaths, F, full_paths, directory, triple) ==
    LET root == RelRoot(directory, triple[1])
    IN  IF validate(F, root)
        THEN IF F.non_empty_folders /\ get_level(root) = F.max_level
             THEN add_path(filepaths, full_paths, directory, root)
             ELSE FilterFiles(filepaths, F, full_paths, directory, root, triple[3])
        ELSE filepaths

\* The files loop of Crawler.encompass.
RECURSIVE EncompassFiles(_, _, _, _, _)
EncompassFiles(filepaths, full_paths, directory, root, files) ==
    IF files = <<>> THEN filepaths
    ELSE EncompassFiles(add_path(filepaths, full_paths, directory, Join(root, files[1])),
                        full_paths, directory, root, Tail(files))

\* One iteration of the os.walk loop of Crawler.encompass: the attribute
\* non_empty_folders is read from self.filters, which is False on this branch.
EncompassIter(filepaths, F, full_paths, directory, triple) ==
    LET root == RelRoot(directory, triple[1])
    IN  IF ~F.supplied
        THEN [raised |-> "AttributeError", filepaths |-> filepaths]
        ELSE [raised |-> "",
              filepaths |-> IF F.non_empty_folders
                            THEN add_path(filepaths, full_paths, directory, root)
                            ELSE EncompassFiles(filepaths, full_paths, directory, root,
                                                triple[3])]

\* Crawler.filter as a function of one root.
RECURSIVE FilterAll(_, _, _, _, _)
FilterAll(fp, F, full_paths, root, triples) ==
    IF triples = <<>> THEN fp
    ELSE FilterAll(FilterIter(fp, F, full_paths, root, Head(triples)),
                   F, full_paths, root, Tail(triples))

\* Crawler.encompass as a function of one root.
RECURSIVE EncompassAll(_, _, _, _, _)
EncompassAll(fp, F, full_paths, root, triples) ==
    IF triples = <<>> THEN [raised |-> "", filepaths |-> fp]
    ELSE LET r == EncompassIter(fp, F, full_paths, root, Head(triples))
         IN  IF r.raised # "" THEN r
             ELSE EncompassAll(r.filepaths, F, full_paths, root, Tail(triples))

\* The Crawler over its roots in turn, as a function: what it raises and the
\* list it leaves.
RECURSIVE CrawlerRun(_, _, _, _, _, _)
CrawlerRun(fp, f, dirs, F, full_paths, topdown) ==
    IF dirs = <<>> THEN [raised |-> "", filepaths |-> fp]
    ELSE LET triples == OsWalk(f, dirs[1], topdown)
             r == IF F.supplied
                  THEN [raised |-> "",
                        filepaths |-> FilterAll(fp, F, full_paths, dirs[1], triples)]
                  ELSE EncompassAll(fp, F, full_paths, dirs[1], triples)
         IN  IF r.raised # "" THEN r
             ELSE CrawlerRun(r.filepaths, f, Tail(dirs), F, full_paths, topdown)

VARIABLES
    fs,         \* the file system, unchanged by a traversal
    req,        \* the arguments of DirPaths(...)
    directory,  \* DirPaths.directory / Crawler.directory
    filters,    \* DirPaths.filters / Crawler.filters
    pc,         \* where the traversal is
    dirIdx,     \* the index in directory of the root being walked
    pending,    \* the os.walk triples of that root not yet looped over
    filepaths,  \* Crawler.filepaths
    result,     \* DirPaths.filepaths
    raised,     \* the exception that ended the traversal, or ""
    calls,      \* how often walk() was called
    start,      \* DirTree.start
    tree_dict,  \* DirTree.tree_dict (DirTree.dir in the legacy module)
    pool        \* the parallel traversal's workers and shared collector

vars == <<fs, req, directory, filters, pc, dirIdx, pending, filepaths, result, raised, calls,
          start, tree_dict, pool>>

\* No worker pool: the traversal is sequential.
NoPool == pool = <<>>

\* The fields of the objects a run does not construct.
NoTree == start = 0 /\ tree_dict = <<>>

\* DirPaths(...) constructed, walk() called, the Crawler not yet constructed.
InitCrawl ==
    /\ fs \in CrawlFileSystems
    /\ req \in Requests
    /\ directory = InitDirectory(req.directory)
    /\ filters = InitFilters(req)
    /\ pc = "new"
    /\ dirIdx = 0
    /\ pending = <<>>
    /\ filepaths = <<>>
    /\ result = <<>>
    /\ raised = ""
    /\ calls = 1
    /\ NoTree
    /\ NoPool

\* Crawler.__init__: an empty filepaths, and filter() or encompass().
CrawlerInit ==
    /\ pc = "new"
    /\ pc' = IF filters.supplied THEN "filter" ELSE "encompass"
    /\ filepaths' = <<>>
    /\ dirIdx' = 0
    /\ pending' = <<>>
    /\ UNCHANGED <<fs, req, directory, filters, result, raised, calls, start, tree_dict, pool>>

\* for directory in self.directory: os.walk(directory, topdown=self.topdown)
NextRoot ==
    /\ pc \in {"filter", "encompass"}
    /\ pending = <<>>
    /\ dirIdx < Len(directory)
    /\ dirIdx' = dirIdx + 1
    /\ pending' = OsWalk(fs, directory[dirIdx + 1], req.topdown)
    /\ UNCHANGED <<fs, req, directory, filters, pc, filepaths, result, raised, calls, start, tree_dict, pool>>

\* One iteration of the loop of Crawler.filter.
FilterStep ==
    /\ pc = "filter"
    /\ pending # <<>>
    /\ filepaths' = FilterIter(filepaths, filters, req.full_paths, directory[dirIdx],
                               Head(pending))
    /\ pending' = Tail(pending)
    /\ UNCHANGED <<fs, req, directory, filters, pc, dirIdx, result, raised, calls, start, tree_dict, pool>>

\* One iteration of the loop of Crawler.encompass.
EncompassStep ==
    /\ pc = "encompass"
    /\ pending # <<>>
    /\ LET r == EncompassIter(filepaths, filters, req.full_paths, directory[dirIdx],
                              Head(pending))
       IN  /\ filepaths' = r.filepaths
           /\ raised' = r.raised
           /\ pc' = IF r.raised # "" THEN "raised" ELSE pc
    /\ pending' = Tail(pending)
    /\ UNCHANGED <<fs, req, directory, filters, dirIdx, result, calls, start, tree_dict, pool>>

\* DirPaths.walk returns: self.filepaths is the Crawler's list.
WalkReturn ==
    /\ pc \in {"filter", "encompass"}
    /\ pending = <<>>
    /\ dirIdx = Len(directory)
    /\ result' = filepaths
    /\ pc' = "done"
    /\ UNCHANGED <<fs, req, directory, filters, dirIdx, pending, filepaths, raised, calls, start, tree_dict, pool>>

\* walk() called again on the same DirPaths object.
WalkAgain ==
    /\ pc = "done"
    /\ calls < MaxCalls
    /\ calls' = calls + 1
    /\ pc' = "new"
    /\ UNCHANGED <<fs, req, directory, filters, dirIdx, pending, filepaths, result, raised, start, tree_dict, pool>>

NextCrawl == CrawlerInit \/ NextRoot \/ FilterStep \/ EncompassStep \/ WalkReturn \/ WalkAgain

SpecCrawl == InitCrawl /\ [][NextCrawl]_vars

\* ------------------------------------------------- the sequential traversal

\* The set a request for the single root r returns with the filters and flags
\* of req; a request without filters returns nothing (encompass raises, or the
\* root is no directory and the list stays empty).
SingleRootResult(r) ==
    IF ~filters.supplied THEN {}
    ELSE Range(FilterAll(<<>>, filters, req.full_paths, r, OsWalk(fs, r, req.topdown)))

SoleRoot == ~req.directory.isList
TheRoot == req.directory.items[1]

\* C3: with no FilterSet supplied the sequential traversal raises nothing and,
\* once it has returned, holds the path of every file below every root it was
\* given.
C3_NoFilterEmitsEveryFile ==
    ~filters.supplied =>
        /\ pc # "raised"
        /\ pc = "done" =>
              \A i \in 1..Len(directory) :
                  IsDir(fs, directory[i]) =>
                      \A rel \in FilesBelow(fs, Segs(directory[i])) :
                          Emitted(req.full_paths, directory[i], rel) \in Range(result)

\* C7: a traversal whose only root is no directory never returns normally.
C7_MissingRootIsAnError ==
    (SoleRoot /\ ~IsDir(fs, TheRoot)) => pc # "done"

\* C10: the result of a request for a list of roots is the union of the
\* results of the requests for each root alone.
C10_RootsListIsUnionOfRoots ==
    (pc = "done" /\ req.directory.isList) =>
        Range(result) = UNION {SingleRootResult(req.directory.items[i]) :
                                  i \in 1..Len(req.directory.items)}

\* C2: with include terms, default depth bounds and non-empty-folders mode
\* off, the files directly in the single root that the traversal returns are
\* those whose name holds an include term and no exclude term.
C2_IncludeExcludeOnRootFiles ==
    (/\ pc = "done" /\ SoleRoot /\ IsDir(fs, TheRoot)
     /\ req.to_include # <<>>
     /\ req.min_level = 0 /\ req.max_level = inf /\ ~req.non_empty_folders) =>
        \A n \in ChildNames(fs, Segs(TheRoot), "f") :
            Emitted(req.full_paths, TheRoot, n) \in Range(result)
            <=> /\ \E i \in 1..Len(req.to_include) : Contains(req.to_include[i], n)
                /\ ~\E i \in 1..Len(req.to_exclude) : Contains(req.to_exclude[i], n)

\* C4: no returned path ends in a name that begins with the hidden marker.
C4_NoHiddenEntryEmitted ==
    pc = "done" => \A i \in 1..Len(result) : ~StartsWith(Basename(result[i]), DOT)

\* The entry a returned path string names.
ResolveEmitted(path) ==
    IF req.full_paths THEN Segs(path) ELSE Segs(TheRoot) \o Segs(path)

\* C6: in non-empty-folders mode a returned directory is exactly max_level
\* segments below the root and has a file somewhere below it: an empty
\* directory is not returned, nor a directory at another level.
C6_NonEmptyFoldersAtMaxLevel ==
    (/\ pc = "done" /\ SoleRoot /\ IsDir(fs, TheRoot)
     /\ filters.supplied /\ req.non_empty_folders) =>
        \A i \in 1..Len(result) :
            LET segs == ResolveEmitted(result[i])
            IN  Dir(segs) \in fs =>
                    /\ Len(segs) - Len(Segs(TheRoot)) = req.max_level
                    /\ FilesBelow(fs, segs) # {}

\* ----------------------------------------------------------------- DirTree

\* How deep the nested z/ directories of the tree file systems go.
MaxDepth == 2

\* p/x/ holds any of y.txt, the hidden .h, the empty c/ and a chain of nested
\* z/ directories, each with or without a w.txt.
Zs(k) == [i \in 1..k |-> N_z]

TreeUniverse ==
    {Dir(<<N_p>>), Dir(<<N_p, N_x>>), File(<<N_p, N_x, N_y_txt>>),
     File(<<N_p, N_x, N_hid>>), Dir(<<N_p, N_x, N_c>>)}
    \cup {Dir(<<N_p, N_x>> \o Zs(k)) : k \in 1..MaxDepth}
    \cup {File(<<N_p, N_x>> \o Zs(k) \o <<N_w_txt>>) : k \in 1..MaxDepth}

TreeFileSystems ==
    {f \in SUBSET TreeUniverse : Closed(f) /\ Dir(<<N_p, N_x>>) \in f}

\* The root argument: p/x, p/x/, /p/x, p//x and p.
TreeRoots ==
    {<<"p", SEP, "x">>, <<"p", SEP, "x", SEP>>, <<SEP, "p", SEP, "x">>,
     <<"p", SEP, SEP, "x">>, <<"p">>}

\* One level's rule: None, or a dict with an include and an exclude list.
NoRule == [given |-> FALSE, include |-> {}, exclude |-> {}]
Rule(include, exclude) == [given |-> TRUE, include |-> include, exclude |-> exclude]
Level(folders) == [folders |-> folders, files |-> NoRule]

\* branches: None (the empty list), levels without rules, and levels that
\* exclude z or include only x.
BranchesArgs ==
    {<<>>,
     <<Level(NoRule)>>,
     [i \in 1..(MaxDepth + 1) |-> Level(NoRule)],
     <<Level(NoRule), Level(Rule({}, {N_z})), Level(NoRule)>>,
     <<Level(Rule({N_x}, {})), Level(NoRule), Level(NoRule)>>}

TreeRequests == [root : TreeRoots, branches : BranchesArgs, legacy : BOOLEAN]

\* str(Path(root)): repeated and trailing separators and '.' segments go, a
\* leading separator stays, and nothing at all is '.'.
PathStr(s) ==
    LET parts == SelectSeq(Split(s), LAMBDA n : n # <<>> /\ n # <<DOT>>)
        body == JoinAll(parts)
    IN  IF StartsWith(s, SEP) THEN <<SEP>> \o body
        ELSE IF body = <<>> THEN <<DOT>>
        ELSE body

\* DirTree.__init__: self.directory, Path(root) in walk/walk.py and
\* directory.rstrip(os.sep) in the legacy walk.py.
TreeDirectory(q) == IF q.legacy THEN RStrip(q.root, SEP) ELSE PathStr(q.root)

\* self.start taken after the first separator instead of the last.
TreeStartFirstSep(dir) == Find(dir, SEP) + 1

\* DirTree.__init__: self.start
TreeStart(dir) == RFind(dir, SEP) + 1

\* The values of a tree dictionary: None, or a dict from names to values.
None == [kind |-> "None"]
PyDict(items) == [kind |-> "dict", items |-> items]

\* dict.fromkeys(files)
FromKeys(files) == PyDict([n \in Range(files) |-> None])

\* dict.get(d, key), which raises TypeError when d is no dict.
DictGet(d, key) ==
    IF d.kind # "dict" THEN [raised |-> "TypeError", value |-> None]
    ELSE [raised |-> "",
          value |-> IF key \in DOMAIN d.items THEN d.items[key] ELSE None]

\* reduce(dict.get, keys, d)
RECURSIVE Reduce(_, _)
Reduce(keys, d) ==
    IF keys = <<>> THEN [raised |-> "", value |-> d]
    ELSE LET r == DictGet(d, keys[1])
         IN  IF r.raised # "" THEN r ELSE Reduce(Tail(keys), r.value)

\* d[key] = value
SetItem(d, key, value) ==
    PyDict([n \in DOMAIN d.items \cup {key} |-> IF n = key THEN value ELSE d.items[n]])

\* The tree after parent[key] = value, parent being the dict that keys lead to.
RECURSIVE SetAt(_, _, _, _)
SetAt(d, keys, key, value) ==
    IF keys = <<>> THEN SetItem(d, key, value)
    ELSE SetItem(d, keys[1], SetAt(d.items[keys[1]], Tail(keys), key, value))

\* files = dict.fromkeys(files); parent = reduce(dict.get, folders[:-1], tree);
\* parent[folders[-1]] = files
TreeInsert(tree, folders, files) ==
    LET keys == Take(folders, Len(folders) - 1)
        parent == Reduce(keys, tree)
    IN  IF parent.raised # "" \/ parent.value.kind # "dict"
        THEN [raised |-> "TypeError", tree |-> tree]
        ELSE [raised |-> "",
              tree |-> SetAt(tree, keys, folders[Len(folders)], FromKeys(files))]

\* DirTree._filter from index on: branches[index] raises IndexError past the
\* end of branches; a rule that is given makes exclude and include the bound
\* method filters.get, which is true and which 'in' cannot search.
RECURSIVE FilterFrom(_, _, _, _)
FilterFrom(branches, folders, folder_or_file, index) ==
    IF index > Len(folders) THEN "True"
    ELSE IF index > Len(branches) THEN "IndexError"
    ELSE IF branches[index][folder_or_file].given THEN "TypeError"
    ELSE FilterFrom(branches, folders, folder_or_file, index + 1)

\* DirTree._filter(folders, folder_or_file)
TreeFilter(branches, folders, folder_or_file) ==
    FilterFrom(branches, folders, folder_or_file, 1)

\* One iteration of the os.walk loop of DirTree.get.
TreeIter(tree, branches, strt, triple) ==
    LET folders == Split(Drop(triple[1], strt))
        passed == IF branches # <<>> THEN TreeFilter(branches, folders, "folders")
                  ELSE "True"
    IN  IF passed = "True" THEN TreeInsert(tree, folders, triple[3])
        ELSE IF passed = "False" THEN [raised |-> "", tree |-> tree]
        ELSE [raised |-> passed, tree |-> tree]

\* DirTree(root, branches) constructed, get() about to loop over os.walk.
InitTree ==
    /\ fs \in TreeFileSystems
    /\ req \in TreeRequests
    /\ directory = TreeDirectory(req)
    /\ start = TreeStart(directory)
    /\ tree_dict = PyDict(<<>>)
    /\ pending = OsWalk(fs, directory, TRUE)
    /\ pc = "get"
    /\ raised = ""
    /\ calls = 1
    /\ filters = False
    /\ dirIdx = 0
    /\ filepaths = <<>>
    /\ result = <<>>
    /\ NoPool

\* One iteration of the loop of DirTree.get.
TreeStep ==
    /\ pc = "get"
    /\ pending # <<>>
    /\ LET r == TreeIter(tree_dict, req.branches, start, Head(pending))
       IN  /\ tree_dict' = r.tree
           /\ raised' = r.raised
           /\ pc' = IF r.raised # "" THEN "raised" ELSE pc
    /\ pending' = Tail(pending)
    /\ UNCHANGED <<fs, req, directory, filters, dirIdx, filepaths, result, calls, start, pool>>

\* DirTree.get returns self.tree_dict.
TreeReturn ==
    /\ pc = "get"
    /\ pending = <<>>
    /\ pc' = "done"
    /\ UNCHANGED <<fs, req, directory, filters, dirIdx, pending, filepaths, result, raised,
                   calls, start, tree_dict, pool>>

\* get called again on the same DirTree object.
TreeGetAgain ==
    /\ pc = "done"
    /\ calls < MaxCalls
    /\ calls' = calls + 1
    /\ pending' = OsWalk(fs, directory, TRUE)
    /\ pc' = "get"
    /\ UNCHANGED <<fs, req, directory, filters, dirIdx, filepaths, result, raised, start,
                   tree_dict, pool>>

NextTree == TreeStep \/ TreeReturn \/ TreeGetAgain

SpecTree == InitTree /\ [][NextTree]_vars

\* The root directory as the file system knows it, and its own name.
TreeRootSegs == Segs(req.root)
TreeRootName == TreeRootSegs[Len(TreeRootSegs)]

\* The mapping of the directory segs: its files to None, its sub-directories
\* to their mappings.
RECURSIVE Mapping(_, _)
Mapping(f, segs) ==
    LET files == ChildNames(f, segs, "f")
        dirs == ChildNames(f, segs, "d")
    IN  PyDict([n \in files \cup dirs |->
                   IF n \in files THEN None ELSE Mapping(f, Append(segs, n))])

\* C8: without branches, get raises nothing and returns the mapping whose one
\* key is the root's name, holding every directory below the root as a nested
\* mapping, every file as a key of its directory mapped to None, and nothing
\* else.
C8_TreeMirrorsDirectory ==
    req.branches = <<>> =>
        /\ pc # "raised"
        /\ pc = "done" =>
              tree_dict = PyDict([n \in {TreeRootName} |-> Mapping(fs, TreeRootSegs)])

\* C8 witness: x/ holding y.txt and z/w.txt has been built into
\* {x: {y.txt: None, z: {w.txt: None}}}.
C8_Witness ==
    /\ pc = "done" /\ req.branches = <<>>
    /\ fs = {Dir(<<N_p>>), Dir(<<N_p, N_x>>), File(<<N_p, N_x, N_y_txt>>),
             Dir(<<N_p, N_x, N_z>>), File(<<N_p, N_x, N_z, N_w_txt>>)}
    /\ tree_dict = PyDict([a \in {N_x} |->
                      PyDict([b \in {N_y_txt, N_z} |->
                          IF b = N_y_txt THEN None
                          ELSE PyDict([c \in {N_w_txt} |-> None])])])

\* A name passes a level's rule.
Passes(rule, name) ==
    /\ rule.exclude = {} \/ name \notin rule.exclude
    /\ rule.include = {} \/ name \in rule.include

\* The directory whose names from the root's own name on are names is a
\* nested mapping of the tree.
RECURSIVE Present(_, _)
Present(d, names) ==
    IF d.kind # "dict" THEN FALSE
    ELSE IF names = <<>> THEN TRUE
    ELSE names[1] \in DOMAIN d.items /\ Present(d.items[names[1]], Tail(names))

\* C9: with branches, get raises nothing and returns a mapping that holds a
\* directory if and only if each of its names passes the folders rule of its
\* level, a level without a rule passing every name.
C9_BranchesPruneFolders ==
    req.branches # <<>> =>
        /\ pc # "raised"
        /\ pc = "done" =>
              \A e \in {x \in fs : /\ x.kind = "d"
                                  /\ Len(x.segs) >= Len(TreeRootSegs)
                                  /\ Take(x.segs, Len(TreeRootSegs)) = TreeRootSegs} :
                  LET names == Drop(e.segs, Len(TreeRootSegs) - 1)
                  IN  Present(tree_dict, names)
                      <=> \A i \in 1..Len(names) :
                              i <= Len(req.branches) =>
                                  Passes(req.branches[i].folders, names[i])

\* ------------------------------------------------- the legacy DirPaths.walk

LegacyRequests ==
    [directory : {N_r, N_t, N_nope}, full_paths : BOOLEAN, topdown : BOOLEAN,
     to_include : IncludeArgs, to_exclude : ExcludeArgs]

\* The working directory, which Path.absolute() prepends.
Cwd == <<SEP>>

\* Path(p).absolute()
Absolute(p) == LET q == PathStr(p) IN IF StartsWith(q, SEP) THEN q ELSE Join(Cwd, q)

\* The files loop of the legacy walk: hidden file names are passed over.
RECURSIVE LegacyFiles(_, _, _)
LegacyFiles(fp, root, files) ==
    IF files = <<>> THEN fp
    ELSE LegacyFiles(IF ~StartsWith(files[1], DOT)
                     THEN Append(fp, Join(root, files[1])) ELSE fp,
                     root, Tail(files))

\* The os.walk loop of the legacy walk.
RECURSIVE LegacyLoop(_, _)
LegacyLoop(fp, triples) ==
    IF triples = <<>> THEN fp
    ELSE LegacyLoop(LegacyFiles(fp, triples[1][1], triples[1][3]), Tail(triples))

\* [path for path in paths for term in terms if term in basename(Path(path))]:
\* a path once for every term its name holds.
RECURSIVE PerTerm(_, _)
PerTerm(path, terms) ==
    IF terms = <<>> THEN <<>>
    ELSE (IF Contains(terms[1], Basename(PathStr(path))) THEN <<path>> ELSE <<>>)
         \o PerTerm(path, Tail(terms))

RECURSIVE Matching(_, _)
Matching(paths, terms) ==
    IF paths = <<>> THEN <<>>
    ELSE PerTerm(paths[1], terms) \o Matching(Tail(paths), terms)

\* The legacy DirPaths._get_filepaths; list(set(...)) in one fixed order.
LegacyGetFilepaths(fp, q) ==
    LET included == IF q.to_include # <<>> THEN Matching(fp, q.to_include) ELSE fp
        excluded == IF q.to_exclude # <<>>
                    THEN SetToSeq(Range(included) \ Range(Matching(included, q.to_exclude)))
                    ELSE included
    IN  IF q.full_paths
        THEN [i \in 1..Len(excluded) |-> Absolute(excluded[i])]
        ELSE excluded

\* The legacy DirPaths(...) constructed.
InitLegacy ==
    /\ fs \in CrawlFileSystems
    /\ req \in LegacyRequests
    /\ directory = req.directory
    /\ result = <<>>
    /\ pc = "idle"
    /\ calls = 0
    /\ raised = ""
    /\ filters = False
    /\ dirIdx = 0
    /\ pending = <<>>
    /\ filepaths = <<>>
    /\ NoTree
    /\ NoPool

\* The legacy walk property, read once: the os.walk loop appends to
\* self.filepaths and _get_filepaths filters it.
LegacyWalk ==
    /\ calls < MaxCalls
    /\ calls' = calls + 1
    /\ result' = LegacyGetFilepaths(
                     LegacyLoop(result, OsWalk(fs, directory, req.topdown)), req)
    /\ pc' = "done"
    /\ UNCHANGED <<fs, req, directory, filters, dirIdx, pending, filepaths, raised, start,
                   tree_dict, pool>>

NextLegacy == LegacyWalk

SpecLegacy == InitLegacy /\ [][NextLegacy]_vars

\* C5: the flat result a traversal returns holds no path string twice.
C5_ResultHasNoDuplicates ==
    pc = "done" => NoDup(result)

\* ------------------------------------------------- the parallel traversal

\* The largest pool_size a request names.
MaxWorkers == 2

\* A name, or a relative path with a name, that begins with the hidden marker.
Hidden(rel) == \E k \in 1..Len(Segs(rel)) : StartsWith(Segs(rel)[k], DOT)

\* The files of one visited directory that a worker emits: hidden names are
\* passed over, and with a FilterSet each file's relative path is validated.
RECURSIVE ScanFiles(_, _, _, _, _, _)
ScanFiles(buf, F, full_paths, root, rel, files) ==
    IF files = <<>> THEN buf
    ELSE LET fullname == Join(rel, files[1])
             keep == /\ ~StartsWith(files[1], DOT)
                     /\ F.supplied => validate(F, fullname)
         IN  ScanFiles(IF keep THEN Append(buf, Emitted(full_paths, root, fullname))
                       ELSE buf,
                       F, full_paths, root, rel, Tail(files))

\* The per-directory algorithm every worker runs: the directory's path
\* relative to its root; nothing for a hidden directory; without a FilterSet
\* every file; with one, nothing for a rejected directory, the directory
\* itself at max_level in non-empty-folders mode, and else its accepted files.
ScanDir(buf, F, full_paths, root, triple) ==
    LET rel == RelRoot(root, triple[1])
    IN  IF Hidden(rel) THEN buf
        ELSE IF ~F.supplied THEN ScanFiles(buf, F, full_paths, root, rel, triple[3])
        ELSE IF ~validate(F, rel) THEN buf
        ELSE IF F.non_empty_folders /\ get_level(rel) = F.max_level
             THEN Append(buf, Emitted(full_paths, root, rel))
        ELSE ScanFiles(buf, F, full_paths, root, rel, triple[3])

\* The units of work: one per root; for a single root, its own directory and
\* one per immediate sub-directory, each scanned relative to the root.
Units(f, dirs) ==
    IF Len(dirs) = 1
    THEN LET top == OsWalk(f, dirs[1], TRUE)[1]
         IN  << <<[root |-> dirs[1], triple |-> <<top[1], <<>>, top[3]>>]>> >>
             \o [k \in 1..Len(top[2]) |->
                    LET sub == WalkFrom(f, Join(dirs[1], top[2][k]),
                                        Append(Segs(dirs[1]), top[2][k]), TRUE)
                    IN  [j \in 1..Len(sub) |-> [root |-> dirs[1], triple |-> sub[j]]]]
    ELSE [k \in 1..Len(dirs) |->
             LET all == OsWalk(f, dirs[k], TRUE)
             IN  [j \in 1..Len(all) |-> [root |-> dirs[k], triple |-> all[j]]]]

\* The static partition: unit k goes to worker ((k - 1) mod n) + 1.
Share(units, w, n) ==
    Flatten(SelectSeq([k \in 1..Len(units) |->
                          IF ((k - 1) % n) + 1 = w THEN units[k] ELSE <<>>],
                      LAMBDA u : u # <<>>))

Min(a, b) == IF a <= b THEN a ELSE b

\* The pool after the partition: at most one worker per unit.
Partition(f, dirs, pool_size) ==
    LET units == Units(f, dirs)
        n == Min(pool_size, Len(units))
    IN  [size |-> pool_size, collector |-> <<>>,
         workers |-> [w \in 1..n |->
                         [todo |-> Share(units, w, n), buf |-> <<>>, state |-> "scan"]]]

\* DirPaths(..., parallelize=True, pool_size=n) constructed, walk() called.
InitPar ==
    /\ fs \in CrawlFileSystems
    /\ req \in {q \in Requests : q.topdown}
    /\ directory = InitDirectory(req.directory)
    /\ filters = InitFilters(req)
    /\ pool \in {[size |-> n, collector |-> <<>>, workers |-> <<>>] : n \in 1..MaxWorkers}
    /\ pc = "new"
    /\ dirIdx = 0
    /\ pending = <<>>
    /\ filepaths = <<>>
    /\ result = <<>>
    /\ raised = ""
    /\ calls = 1
    /\ NoTree

\* The coordinator partitions the work; a sole root that is no directory
\* fails the request.
SprinterStart ==
    /\ pc = "new"
    /\ IF Len(directory) = 1 /\ ~IsDir(fs, directory[1])
       THEN /\ pc' = "raised"
            /\ raised' = "RootNotFound"
            /\ pool' = pool
       ELSE /\ pc' = "pool"
            /\ raised' = raised
            /\ pool' = Partition(fs, directory, pool.size)
    /\ UNCHANGED <<fs, req, directory, filters, dirIdx, pending, filepaths, result, calls,
                   start, tree_dict>>

\* Worker w scans the next directory of its share into its private buffer.
WorkerScan(w) ==
    /\ pc = "pool"
    /\ pool.workers[w].state = "scan"
    /\ pool.workers[w].todo # <<>>
    /\ LET me == pool.workers[w]
           job == Head(me.todo)
       IN  pool' = [pool EXCEPT !.workers[w] =
                       [todo |-> Tail(me.todo),
                        buf |-> ScanDir(me.buf, filters, req.full_paths, job.root,
                                        job.triple),
                        state |-> "scan"]]
    /\ UNCHANGED <<fs, req, directory, filters, pc, dirIdx, pending, filepaths, result,
                   raised, calls, start, tree_dict>>

\* Worker w, its share scanned, appends its buffer to the shared collector in
\* one serialized step.
WorkerPush(w) ==
    /\ pc = "pool"
    /\ pool.workers[w].state = "scan"
    /\ pool.workers[w].todo = <<>>
    /\ pool' = [pool EXCEPT !.collector = @ \o pool.workers[w].buf,
                            !.workers[w].state = "done"]
    /\ UNCHANGED <<fs, req, directory, filters, pc, dirIdx, pending, filepaths, result,
                   raised, calls, start, tree_dict>>

\* The coordinator, every worker done, merges the collector into the
\* duplicate-free result.
SprinterMerge ==
    /\ pc = "pool"
    /\ \A w \in DOMAIN pool.workers : pool.workers[w].state = "done"
    /\ result' = SetToSeq(Range(pool.collector))
    /\ pc' = "done"
    /\ UNCHANGED <<fs, req, directory, filters, dirIdx, pending, filepaths, raised, calls,
                   start, tree_dict, pool>>

NextPar ==
    \/ SprinterStart
    \/ \E w \in 1..MaxWorkers : w \in DOMAIN pool.workers /\ WorkerScan(w)
    \/ \E w \in 1..MaxWorkers : w \in DOMAIN pool.workers /\ WorkerPush(w)
    \/ SprinterMerge

SpecPar == InitPar /\ [][NextPar]_vars

\* C1: what walk() returns with parallelize=True is set-equal to what walk()
\* returns with parallelize=False for the same roots, filters and full_paths
\* on the same file system, whatever the pool size and the workers' order.
C1_ParallelEqualsSequential ==
    pc = "done" =>
        LET seq == CrawlerRun(<<>>, fs, directory, filters, req.full_paths, req.topdown)
        IN  /\ seq.raised = ""
            /\ Range(result) = Range(seq.filepaths)

====
